---- MODULE Spec2Model ----
(***************************************************************************)
(* Buffer pool core of bustub: ExtendibleHashTable, LRUKReplacer and       *)
(* BufferPoolManagerInstance, modelled from                                *)
(*   src/src/container/hash/extendible_hash_table.cpp                      *)
(*   src/src/buffer/lru_k_replacer.cpp                                     *)
(*   src/src/buffer/buffer_pool_manager_instance.cpp                       *)
(* Each component is a value (a record) with its methods as operators that *)
(* return the component's next value; the buffer pool manager's actions    *)
(* compose them in the order of the method bodies.                         *)
(***************************************************************************)
EXTENDS Integers, Sequences, FiniteSets, TLC

\* ------------------------------------------------------------------ bounds
\* Hash-table keys used by the stand-alone hash-table specification: 0..MaxKey-1.
MaxKey == 5
\* Largest bucket_size given to the stand-alone hash table's constructor.
MaxBucketSize == 1
\* Largest global depth the machine can hold a directory for: a doubling
\* beyond it does not complete (std::vector::resize throws) and the Insert
\* that asked for it never returns.
MaxGlobalDepth == 3

\* Threads that call Insert on the hash table with concurrent callers.
MaxInserters == 2
\* Its keys are 0..MaxConcKey-1, and its directory cannot double beyond
\* global depth MaxConcDepth.
MaxConcKey == 3
MaxConcDepth == 2

\* Largest num_frames given to the stand-alone replacer's constructor; its
\* callers pass the frame ids 0..RepFrames, in range or not (the range checks
\* of RecordAccess, SetEvictable and Remove are commented out).
RepFrames == 2
\* Largest k given to the stand-alone replacer's constructor.
MaxK == 3
\* The stand-alone replacer records at most this many accesses.
MaxRepTime == 4

\* pool_size given to the buffer pool manager's constructor.
PoolSize == 2
\* replacer_k given to the buffer pool manager's constructor.
ReplacerK == 2
\* Calls of other threads that run while one FlushAllPages is under way.
MaxMid == 1
\* The replacer of the pool with concurrent callers records at most this
\* many accesses.
MaxConcTime == 4
\* bucket_size_ the buffer pool manager builds its page table with.
BpmBucketSize == 2
\* Callers pass the page ids 0..MaxPageId-1, allocated or not, and every page
\* id NewPage has allocated.
MaxPageId == 2
\* Largest pin count a FetchPage may raise a page to.
MaxPin == 2
\* Largest value of the replacer's current_timestamp_.
MaxTime == 3

INVALID_PAGE_ID == -1

Pow2(n) == 2 ^ n

Max(S) == CHOOSE x \in S : \A y \in S : y <= x

Min(S) == CHOOSE x \in S : \A y \in S : x <= y

\* ------------------------------------------------------- ExtendibleHashTable
\* A table is [global_depth_, bucket_size_, num_buckets_, dir_, heap]:
\* dir_ maps slot 0..2^global_depth_-1 to a bucket reference, heap maps a
\* reference (a shared_ptr target) to the bucket [size_, depth_, list_].
\* list_ is the std::list of <<key, value>> pairs in list order.

\* Bucket::Bucket(array_size, depth)
Bucket(array_size, depth) == [size_ |-> array_size, depth_ |-> depth, list_ |-> <<>>]

\* Bucket::IsFull (header): the list holds size_ pairs.
IsFull(b) == Len(b.list_) = b.size_

\* ExtendibleHashTable::ExtendibleHashTable(bucket_size)
ExtendibleHashTable(bucket_size) ==
  [global_depth_ |-> 0, bucket_size_ |-> bucket_size, num_buckets_ |-> 1,
   dir_ |-> (0 :> 0), heap |-> (0 :> Bucket(bucket_size, 0))]

\* IndexOf: std::hash<int> is the identity on the key's bits (an int key
\* widened to size_t), masked to the low global_depth_ bits; on a two's
\* complement key that is the non-negative remainder modulo 2^global_depth_.
IndexOf(t, key) == key % Pow2(t.global_depth_)

GetGlobalDepth(t) == t.global_depth_

GetLocalDepth(t, dir_index) == t.heap[t.dir_[dir_index]].depth_

GetBucketSize(t) == t.bucket_size_

GetNumBuckets(t) == t.num_buckets_

\* Positions of key in a bucket's list.
KeyPositions(b, key) == {i \in 1..Len(b.list_) : b.list_[i][1] = key}

\* Bucket::Find: the first pair with the key; [found, value].
BucketFind(b, key) ==
  IF KeyPositions(b, key) = {}
  THEN [found |-> FALSE, value |-> -1]
  ELSE [found |-> TRUE, value |-> b.list_[Min(KeyPositions(b, key))][2]]

\* Bucket::Remove: erases the first pair with the key, if any.
BucketRemove(b, key) ==
  IF KeyPositions(b, key) = {}
  THEN b
  ELSE LET p == Min(KeyPositions(b, key))
       IN [b EXCEPT !.list_ = SubSeq(b.list_, 1, p - 1) \o SubSeq(b.list_, p + 1, Len(b.list_))]

\* Bucket::Insert: nothing when full; else drops the key's old pair and
\* appends the new one.
BucketInsert(b, key, value) ==
  IF IsFull(b)
  THEN b
  ELSE LET r == BucketRemove(b, key)
       IN [r EXCEPT !.list_ = Append(r.list_, <<key, value>>)]

\* ExtendibleHashTable::Find
HtFind(t, key) == BucketFind(t.heap[t.dir_[IndexOf(t, key)]], key)

\* ExtendibleHashTable::Remove
HtRemove(t, key) ==
  LET ref == t.dir_[IndexOf(t, key)]
  IN IF ~BucketFind(t.heap[ref], key).found
     THEN t
     ELSE [t EXCEPT !.heap[ref] = BucketRemove(t.heap[ref], key)]

\* std::make_shared<Bucket>: a reference not in use.
NewRef(heap) == Max(DOMAIN heap) + 1

\* A doubling that forgets bucket_tar->IncrementDepth(): the two buckets keep
\* the old local depth.
SplitDoublingKeepsDepth(t, bucket_id) ==
  LET old_sz == Pow2(t.global_depth_)
      tar == t.dir_[bucket_id]
      gd == t.global_depth_ + 1
      fresh == NewRef(t.heap)
      old_list == t.heap[tar].list_
  IN [t EXCEPT !.global_depth_ = gd,
               !.dir_ = [i \in 0..(2 * old_sz - 1) |->
                           IF i = bucket_id + old_sz THEN fresh ELSE t.dir_[i % old_sz]],
               !.bucket_size_ = t.bucket_size_ + 1,
               !.heap = (fresh :> [size_ |-> t.bucket_size_, depth_ |-> t.heap[tar].depth_,
                                   list_ |-> SelectSeq(old_list, LAMBDA pa : pa[1] % Pow2(gd) # bucket_id)])
                        @@ [t.heap EXCEPT ![tar].list_ =
                              SelectSeq(old_list, LAMBDA pa : pa[1] % Pow2(gd) = bucket_id)]]

\* Insert, lines 105-126: the target bucket's local depth equals the global
\* depth. The directory doubles, the target's depth is incremented, one new
\* bucket is hung at bucket_id + old_sz, bucket_size_ is incremented, and the
\* pairs whose index is no longer bucket_id move to the new bucket.
SplitDoubling(t, bucket_id) ==
  LET old_sz == Pow2(t.global_depth_)
      tar == t.dir_[bucket_id]
      gd == t.global_depth_ + 1
      depth == t.heap[tar].depth_ + 1
      fresh == NewRef(t.heap)
      dir2 == [i \in 0..(2 * old_sz - 1) |->
                 IF i = bucket_id + old_sz THEN fresh ELSE t.dir_[i % old_sz]]
      old_list == t.heap[tar].list_
      stay == SelectSeq(old_list, LAMBDA pa : pa[1] % Pow2(gd) = bucket_id)
      move == SelectSeq(old_list, LAMBDA pa : pa[1] % Pow2(gd) # bucket_id)
  IN [t EXCEPT !.global_depth_ = gd,
               !.dir_ = dir2,
               !.bucket_size_ = t.bucket_size_ + 1,
               !.heap = (fresh :> [size_ |-> t.bucket_size_, depth_ |-> depth, list_ |-> move])
                        @@ [t.heap EXCEPT ![tar] = [@ EXCEPT !.depth_ = depth, !.list_ = stay]]]

\* Insert, lines 130-137: for i ascending, every slot that agrees with
\* bucket_id on the low `mask` bits gets a bucket of its own, of capacity
\* GetBucketSize() and depth global_depth_; bucket_size_ is incremented for
\* every such slot but bucket_id itself.
RECURSIVE Rewire(_, _, _, _)
Rewire(t, bucket_id, mask, i) ==
  IF i >= Pow2(t.global_depth_)
  THEN t
  ELSE IF i % mask = bucket_id % mask
       THEN LET fresh == NewRef(t.heap)
                t2 == [t EXCEPT !.dir_[i] = fresh,
                                !.heap = (fresh :> Bucket(GetBucketSize(t), t.global_depth_)) @@ t.heap,
                                !.bucket_size_ = IF i # bucket_id THEN @ + 1 ELSE @]
            IN Rewire(t2, bucket_id, mask, i + 1)
       ELSE Rewire(t, bucket_id, mask, i + 1)

\* Insert, lines 138-142: every pair of the old list is inserted into the
\* bucket its key now indexes.
RECURSIVE Redistribute(_, _, _)
Redistribute(t, old_list, n) ==
  IF n > Len(old_list)
  THEN t
  ELSE LET ref == t.dir_[IndexOf(t, old_list[n][1])]
       IN Redistribute([t EXCEPT !.heap[ref] = BucketInsert(@, old_list[n][1], old_list[n][2])],
                       old_list, n + 1)

\* Insert, lines 127-143: the target bucket's local depth is below the
\* global depth.
SplitLocal(t, bucket_id) ==
  LET old_list == t.heap[t.dir_[bucket_id]].list_
      mask == Pow2(t.heap[t.dir_[bucket_id]].depth_)
  IN Redistribute(Rewire(t, bucket_id, mask, 0), old_list, 1)

\* One iteration of the while loop's body.
SplitStep(t, bucket_id) ==
  IF GetGlobalDepth(t) = GetLocalDepth(t, bucket_id)
  THEN SplitDoubling(t, bucket_id)
  ELSE SplitLocal(t, bucket_id)

\* A bucket lives as long as a directory slot references it (shared_ptr); a
\* bucket's address is named by the lowest slot that references it.
Canon(t) ==
  LET slots == DOMAIN t.dir_
      rep(r) == Min({i \in slots : t.dir_[i] = r})
      reps == {rep(t.dir_[i]) : i \in slots}
  IN [t EXCEPT !.dir_ = [i \in slots |-> rep(t.dir_[i])],
               !.heap = [j \in reps |-> t.heap[t.dir_[j]]]]

\* The directory cannot double once more.
Exhausted(t, bucket_id) ==
  /\ GetGlobalDepth(t) = GetLocalDepth(t, bucket_id)
  /\ t.global_depth_ >= MaxGlobalDepth

\* The while loop of Insert: split until the key's bucket is not full. The
\* loop has no other exit: it is left with the bucket still full only when
\* the directory cannot grow any more.
RECURSIVE InsertLoop(_, _)
InsertLoop(t, key) ==
  IF IsFull(t.heap[t.dir_[IndexOf(t, key)]]) /\ ~Exhausted(t, IndexOf(t, key))
  THEN InsertLoop(SplitStep(t, IndexOf(t, key)), key)
  ELSE t

\* Whether Insert(key, .) returns: its loop ends with a bucket that has room.
InsertReturns(t, key) ==
  LET t2 == InsertLoop(t, key)
  IN ~IsFull(t2.heap[t2.dir_[IndexOf(t2, key)]])

\* ExtendibleHashTable::Insert: the table the call leaves behind (when the
\* loop does not end, the table as the last completed split left it).
HtInsert(t, key, value) ==
  LET t2 == InsertLoop(t, key)
      ref == t2.dir_[IndexOf(t2, key)]
  IN Canon([t2 EXCEPT !.heap[ref] = BucketInsert(@, key, value)])

\* -------------------------------------------------------------- LRUKReplacer
\* A replacer is the record of the class's members. history_time_id_ and
\* cache_time_id_ are the std::set of <<timestamp, frame>> pairs,
\* history_id_time_ and cache_id_time_ the std::set of <<frame, timestamp>>
\* pairs; history_cnt_ is the map frame -> count, whose operator[] reads 0
\* for a frame with no entry.

\* LRUKReplacer::LRUKReplacer(num_frames, k)
LRUKReplacer(num_frames, k) ==
  [replacer_size_ |-> num_frames, k_ |-> k, current_timestamp_ |-> 0,
   history_time_id_ |-> {}, history_id_time_ |-> {}, history_cnt_ |-> <<>>,
   history_is_evictable_ |-> {},
   cache_time_id_ |-> {}, cache_id_time_ |-> {}, cache_is_evictable_ |-> {}]

\* LRUKReplacer::Size
Size(r) == Cardinality(r.history_is_evictable_) + Cardinality(r.cache_is_evictable_)

\* id_time.lower_bound(make_pair(frame_id, 0)) lands on an entry of frame_id.
HasEntry(id_time, frame_id) == \E e \in id_time : e[1] = frame_id

\* The entry lower_bound lands on: frame_id's pair with the least timestamp.
EntryOf(id_time, frame_id) ==
  CHOOSE e \in id_time : /\ e[1] = frame_id
                         /\ \A o \in id_time : o[1] = frame_id => e[2] <= o[2]

\* Iteration over a time_id set runs in ascending timestamp order and stops
\* at the first pair whose frame is in the evictable set.
HasEvictable(time_id, evictable) == \E e \in time_id : e[2] \in evictable

FirstEvictable(time_id, evictable) ==
  CHOOSE e \in time_id : /\ e[2] \in evictable
                         /\ \A o \in time_id : o[2] \in evictable => e[1] <= o[1]

\* history_cnt_[frame_id]
Cnt(r, frame_id) ==
  IF frame_id \in DOMAIN r.history_cnt_ THEN r.history_cnt_[frame_id] ELSE 0

\* history_cnt_[frame_id] = n
SetCnt(cnt, frame_id, n) ==
  [f \in (DOMAIN cnt) \cup {frame_id} |-> IF f = frame_id THEN n ELSE cnt[f]]

\* history_cnt_.erase(frame_id)
EraseCnt(cnt, frame_id) == [f \in (DOMAIN cnt) \ {frame_id} |-> cnt[f]]

\* Lines 96-105 and 161-170: the cache's evictable set already holds
\* replacer_size_ frames, so its oldest evictable frame is dropped.
CacheMakeRoom(r) ==
  IF Cardinality(r.cache_is_evictable_) = r.replacer_size_
     /\ HasEvictable(r.cache_time_id_, r.cache_is_evictable_)
  THEN LET e == FirstEvictable(r.cache_time_id_, r.cache_is_evictable_)
       IN [r EXCEPT !.cache_is_evictable_ = @ \ {e[2]},
                    !.cache_id_time_ = @ \ {<<e[2], e[1]>>},
                    !.cache_time_id_ = @ \ {e}]
  ELSE r

\* Lines 141-151: the same for the history's evictable set; the dropped
\* frame's count is set to 0.
HistoryMakeRoom(r) ==
  IF Cardinality(r.history_is_evictable_) = r.replacer_size_
     /\ HasEvictable(r.history_time_id_, r.history_is_evictable_)
  THEN LET e == FirstEvictable(r.history_time_id_, r.history_is_evictable_)
       IN [r EXCEPT !.history_is_evictable_ = @ \ {e[2]},
                    !.history_id_time_ = @ \ {<<e[2], e[1]>>},
                    !.history_time_id_ = @ \ {e},
                    !.history_cnt_ = SetCnt(@, e[2], 0)]
  ELSE r

\* RecordAccess, lines 75-82: the frame is in the cache queue.
RecordAccessCache(r, frame_id) ==
  LET e == EntryOf(r.cache_id_time_, frame_id)
      now == r.current_timestamp_
  IN [r EXCEPT !.cache_id_time_ = (@ \ {e}) \cup {<<frame_id, now>>},
               !.cache_time_id_ = (@ \ {<<e[2], e[1]>>}) \cup {<<now, frame_id>>},
               !.current_timestamp_ = now + 1]

\* RecordAccess, lines 85-116: the frame is in the history queue.
RecordAccessHistory(r, frame_id) ==
  LET e == EntryOf(r.history_id_time_, frame_id)
      now == r.current_timestamp_
      cnt == Cnt(r, frame_id) + 1
      r1 == [r EXCEPT !.history_id_time_ = @ \ {e},
                      !.history_time_id_ = @ \ {<<e[2], e[1]>>},
                      !.history_cnt_ = SetCnt(@, frame_id, cnt)]
  IN IF cnt = r.k_
     THEN LET r2 == [r1 EXCEPT !.history_cnt_ = EraseCnt(@, frame_id)]
              r3 == IF frame_id \in r2.history_is_evictable_
                    THEN LET r4 == CacheMakeRoom(r2)
                         IN [r4 EXCEPT !.history_is_evictable_ = @ \ {frame_id},
                                       !.cache_is_evictable_ = @ \cup {frame_id}]
                    ELSE r2
          IN [r3 EXCEPT !.cache_id_time_ = @ \cup {<<frame_id, now>>},
                        !.cache_time_id_ = @ \cup {<<now, frame_id>>},
                        !.current_timestamp_ = now + 1]
     ELSE [r1 EXCEPT !.history_id_time_ = @ \cup {<<frame_id, now>>},
                     !.history_time_id_ = @ \cup {<<now, frame_id>>},
                     !.current_timestamp_ = now + 1]

\* RecordAccess, lines 117-124: the frame is in neither queue.
RecordAccessNew(r, frame_id) ==
  LET now == r.current_timestamp_
  IN [r EXCEPT !.history_cnt_ = SetCnt(@, frame_id, 1),
               !.history_time_id_ = @ \cup {<<now, frame_id>>},
               !.history_id_time_ = @ \cup {<<frame_id, now>>},
               !.current_timestamp_ = now + 1]

\* LRUKReplacer::RecordAccess
RecordAccess(r, frame_id) ==
  IF HasEntry(r.cache_id_time_, frame_id)
  THEN RecordAccessCache(r, frame_id)
  ELSE IF HasEntry(r.history_id_time_, frame_id)
       THEN RecordAccessHistory(r, frame_id)
       ELSE RecordAccessNew(r, frame_id)

\* LRUKReplacer::SetEvictable
SetEvictable(r, frame_id, set_evictable) ==
  IF HasEntry(r.history_id_time_, frame_id)
  THEN IF set_evictable /\ frame_id \notin r.history_is_evictable_
       THEN LET r1 == HistoryMakeRoom(r)
            IN [r1 EXCEPT !.history_is_evictable_ = @ \cup {frame_id}]
       ELSE IF ~set_evictable
            THEN [r EXCEPT !.history_is_evictable_ = @ \ {frame_id}]
            ELSE r
  ELSE IF HasEntry(r.cache_id_time_, frame_id)
       THEN IF set_evictable /\ frame_id \notin r.cache_is_evictable_
            THEN LET r1 == CacheMakeRoom(r)
                 IN [r1 EXCEPT !.cache_is_evictable_ = @ \cup {frame_id}]
            ELSE IF ~set_evictable
                 THEN [r EXCEPT !.cache_is_evictable_ = @ \ {frame_id}]
                 ELSE r
       ELSE r

\* A Remove without the evictability test of lines 190 and 205: the frame is
\* erased from its queue whether it is evictable or not.
ReplacerRemoveUnchecked(r, frame_id) ==
  IF HasEntry(r.history_id_time_, frame_id)
  THEN LET e == EntryOf(r.history_id_time_, frame_id)
       IN [r EXCEPT !.history_is_evictable_ = @ \ {frame_id},
                    !.history_cnt_ = SetCnt(@, frame_id, 0),
                    !.history_time_id_ = @ \ {<<e[2], e[1]>>},
                    !.history_id_time_ = @ \ {e}]
  ELSE IF HasEntry(r.cache_id_time_, frame_id)
       THEN LET e == EntryOf(r.cache_id_time_, frame_id)
            IN [r EXCEPT !.cache_is_evictable_ = @ \ {frame_id},
                         !.cache_time_id_ = @ \ {<<e[2], e[1]>>},
                         !.cache_id_time_ = @ \ {e}]
       ELSE r

\* Remove, lines 190-192 and 205-207: the throw statement is executed (and
\* the catch block prints the message to std::cerr).
RemoveThrows(r, frame_id) ==
  IF HasEntry(r.history_id_time_, frame_id)
  THEN frame_id \notin r.history_is_evictable_
  ELSE HasEntry(r.cache_id_time_, frame_id) /\ frame_id \notin r.cache_is_evictable_

\* LRUKReplacer::Remove. A frame that is tracked but not evictable throws
\* inside the try block, before any member is touched; the catch prints.
ReplacerRemove(r, frame_id) ==
  IF HasEntry(r.history_id_time_, frame_id)
  THEN IF frame_id \notin r.history_is_evictable_
       THEN r
       ELSE LET e == EntryOf(r.history_id_time_, frame_id)
            IN [r EXCEPT !.history_is_evictable_ = @ \ {frame_id},
                         !.history_cnt_ = SetCnt(@, frame_id, 0),
                         !.history_time_id_ = @ \ {<<e[2], e[1]>>},
                         !.history_id_time_ = @ \ {e}]
  ELSE IF HasEntry(r.cache_id_time_, frame_id)
       THEN IF frame_id \notin r.cache_is_evictable_
            THEN r
            ELSE LET e == EntryOf(r.cache_id_time_, frame_id)
                 IN [r EXCEPT !.cache_is_evictable_ = @ \ {frame_id},
                              !.cache_time_id_ = @ \ {<<e[2], e[1]>>},
                              !.cache_id_time_ = @ \ {e}]
       ELSE r

\* LRUKReplacer::Evict: [ok, frame_id, r]. frame_id is -1 when the call
\* returns false, where the caller's variable is left as it was.
Evict(r) ==
  IF Size(r) = 0
  THEN [ok |-> FALSE, frame_id |-> -1, r |-> r]
  ELSE IF HasEvictable(r.history_time_id_, r.history_is_evictable_)
       THEN LET e == FirstEvictable(r.history_time_id_, r.history_is_evictable_)
            IN [ok |-> TRUE, frame_id |-> e[2],
                r |-> [r EXCEPT !.history_id_time_ = @ \ {<<e[2], e[1]>>},
                                !.history_time_id_ = @ \ {e},
                                !.history_cnt_ = EraseCnt(@, e[2]),
                                !.history_is_evictable_ = @ \ {e[2]}]]
       ELSE IF HasEvictable(r.cache_time_id_, r.cache_is_evictable_)
            THEN LET e == FirstEvictable(r.cache_time_id_, r.cache_is_evictable_)
                 IN [ok |-> TRUE, frame_id |-> e[2],
                     r |-> [r EXCEPT !.cache_id_time_ = @ \ {<<e[2], e[1]>>},
                                     !.cache_time_id_ = @ \ {e},
                                     !.cache_is_evictable_ = @ \ {e[2]}]]
            ELSE [ok |-> FALSE, frame_id |-> -1, r |-> r]

\* ------------------------------------------------- BufferPoolManagerInstance
\* A pool is [pages_, free_list_, next_page_id_, page_table_, replacer_, io]:
\* pages_ maps a frame to its Page [page_id_, pin_count_, is_dirty_, data_],
\* and io is the sequence of calls the running operation has made so far, in
\* program order. A page's bytes are "zero" (zeroed), "disk" (as ReadPage
\* filled them) or "user" (as a caller holding a pin wrote them).

\* Page::Page (header): an empty frame.
Page == [page_id_ |-> INVALID_PAGE_ID, pin_count_ |-> 0, is_dirty_ |-> FALSE, data_ |-> "zero"]

\* BufferPoolManagerInstance::BufferPoolManagerInstance
BufferPoolManagerInstance(pool_size, replacer_k, bucket_size) ==
  [pages_ |-> [f \in 0..(pool_size - 1) |-> Page],
   free_list_ |-> [i \in 1..pool_size |-> i - 1],
   next_page_id_ |-> 0,
   page_table_ |-> ExtendibleHashTable(bucket_size),
   replacer_ |-> LRUKReplacer(pool_size, replacer_k),
   io |-> <<>>]

\* Mutant: giving up as soon as the free list is empty, with no look at the
\* replacer.
NoFrameFreeListOnly(b) == b.free_list_ = <<>>

\* Lines 50 and 89: no frame can be had.
NoFrame(b) == b.free_list_ = <<>> /\ Size(b.replacer_) = 0

\* Lines 54-60 and 92-97: the frame to use, from the free list first, else
\* the replacer's victim; [frame_id, b].
AcquireFrame(b) ==
  IF b.free_list_ # <<>>
  THEN [frame_id |-> Head(b.free_list_), b |-> [b EXCEPT !.free_list_ = Tail(@)]]
  ELSE LET ev == Evict(b.replacer_)
       IN [frame_id |-> ev.frame_id, b |-> [b EXCEPT !.replacer_ = ev.r]]

\* DiskManager::WritePage(page_id, data)
WritePage(b, page_id, data) ==
  [b EXCEPT !.io = Append(@, <<"WritePage", page_id, data>>)]

\* Mutant: a victim that is overwritten without its write-back.
WriteBackSkipsWrite(b, frame_id) ==
  [b EXCEPT !.pages_[frame_id].is_dirty_ = FALSE]

\* Lines 61-64 and 99-102: a dirty frame is written out and marked clean.
WriteBack(b, frame_id) ==
  IF b.pages_[frame_id].is_dirty_
  THEN LET b1 == WritePage(b, b.pages_[frame_id].page_id_, b.pages_[frame_id].data_)
       IN [b1 EXCEPT !.pages_[frame_id].is_dirty_ = FALSE,
                     !.io = Append(@, <<"ClearDirty", frame_id>>)]
  ELSE b

\* Lines 65 and 103: the frame's old page id leaves the page table.
DropMapping(b, frame_id) ==
  [b EXCEPT !.page_table_ = HtRemove(@, b.pages_[frame_id].page_id_),
            !.io = Append(@, <<"Remove", b.pages_[frame_id].page_id_>>)]

\* Page::ResetMemory
ResetMemory(b, frame_id) ==
  [b EXCEPT !.pages_[frame_id].data_ = "zero",
            !.io = Append(@, <<"ResetMemory", frame_id>>)]

\* DiskManager::ReadPage(page_id, data) into the frame's buffer.
ReadPage(b, page_id, frame_id) ==
  [b EXCEPT !.pages_[frame_id].data_ = "disk",
            !.io = Append(@, <<"ReadPage", page_id, frame_id>>)]

\* NewPgImp, lines 61-73, on the frame acquired.
NewPgInstall(b, frame_id) ==
  LET b1 == WriteBack(b, frame_id)
      b2 == DropMapping(b1, frame_id)
      b3 == ResetMemory(b2, frame_id)
      page_id == b3.next_page_id_
      b4 == [b3 EXCEPT !.next_page_id_ = @ + 1,
                       !.pages_[frame_id].page_id_ = page_id,
                       !.pages_[frame_id].pin_count_ = 1]
      r1 == RecordAccess(b4.replacer_, frame_id)
      r2 == SetEvictable(r1, frame_id, FALSE)
  IN [b4 EXCEPT !.replacer_ = r2,
                !.page_table_ = HtInsert(@, page_id, frame_id)]

\* BufferPoolManagerInstance::NewPgImp: [frame_id, page_id, b]; frame_id -1
\* is nullptr.
NewPgImp(b) ==
  IF NoFrame(b)
  THEN [frame_id |-> -1, page_id |-> INVALID_PAGE_ID, b |-> b]
  ELSE LET a == AcquireFrame(b)
       IN [frame_id |-> a.frame_id, page_id |-> b.next_page_id_,
           b |-> NewPgInstall(a.b, a.frame_id)]

\* Mutant: a fetch of a resident page that pins it and records the access
\* but leaves the frame's evictable flag as it was.
FetchPgHitKeepsEvictable(b, frame_id) ==
  LET b1 == [b EXCEPT !.pages_[frame_id].pin_count_ = @ + 1]
  IN [b1 EXCEPT !.replacer_ = RecordAccess(b1.replacer_, frame_id)]

\* FetchPgImp, lines 82-87: the page is resident.
FetchPgHit(b, frame_id) ==
  LET b1 == [b EXCEPT !.pages_[frame_id].pin_count_ = @ + 1]
      r1 == RecordAccess(b1.replacer_, frame_id)
      r2 == SetEvictable(r1, frame_id, FALSE)
  IN [b1 EXCEPT !.replacer_ = r2]

\* FetchPgImp, lines 99-109, on the frame acquired.
FetchPgInstall(b, page_id, frame_id) ==
  LET b1 == WriteBack(b, frame_id)
      b2 == DropMapping(b1, frame_id)
      b3 == ReadPage(b2, page_id, frame_id)
      b4 == [b3 EXCEPT !.pages_[frame_id].pin_count_ = 1,
                       !.pages_[frame_id].page_id_ = page_id,
                       !.page_table_ = HtInsert(@, page_id, frame_id)]
      r1 == RecordAccess(b4.replacer_, frame_id)
      r2 == SetEvictable(r1, frame_id, FALSE)
  IN [b4 EXCEPT !.replacer_ = r2]

\* BufferPoolManagerInstance::FetchPgImp: [frame_id, b]; frame_id -1 is
\* nullptr.
FetchPgImp(b, page_id) ==
  IF page_id = INVALID_PAGE_ID
  THEN [frame_id |-> -1, b |-> b]
  ELSE IF HtFind(b.page_table_, page_id).found
       THEN LET frame_id == HtFind(b.page_table_, page_id).value
            IN [frame_id |-> frame_id, b |-> FetchPgHit(b, frame_id)]
       ELSE IF NoFrame(b)
            THEN [frame_id |-> -1, b |-> b]
            ELSE LET a == AcquireFrame(b)
                 IN [frame_id |-> a.frame_id, b |-> FetchPgInstall(a.b, page_id, a.frame_id)]

\* Mutant: an unpin that stores is_dirty over the frame's dirty flag.
UnpinFrameStoresDirty(b, frame_id, is_dirty) ==
  LET pin == b.pages_[frame_id].pin_count_ - 1
  IN [b EXCEPT !.pages_[frame_id].pin_count_ = pin,
               !.replacer_ = IF pin = 0 THEN SetEvictable(@, frame_id, TRUE) ELSE @,
               !.pages_[frame_id].is_dirty_ = is_dirty]

\* UnpinPgImp, lines 123-129, on the page's frame.
UnpinFrame(b, frame_id, is_dirty) ==
  LET pin == b.pages_[frame_id].pin_count_ - 1
  IN [b EXCEPT !.pages_[frame_id].pin_count_ = pin,
               !.replacer_ = IF pin = 0 THEN SetEvictable(@, frame_id, TRUE) ELSE @,
               !.pages_[frame_id].is_dirty_ = IF is_dirty THEN is_dirty ELSE @]

\* BufferPoolManagerInstance::UnpinPgImp: [ok, b]
UnpinPgImp(b, page_id, is_dirty) ==
  IF page_id = INVALID_PAGE_ID
  THEN [ok |-> FALSE, b |-> b]
  ELSE LET fnd == HtFind(b.page_table_, page_id)
       IN IF ~fnd.found \/ b.pages_[fnd.value].pin_count_ <= 0
          THEN [ok |-> FALSE, b |-> b]
          ELSE [ok |-> TRUE, b |-> UnpinFrame(b, fnd.value, is_dirty)]

\* BufferPoolManagerInstance::FlushPgImp: [ok, b]
FlushPgImp(b, page_id) ==
  IF page_id = INVALID_PAGE_ID
  THEN [ok |-> FALSE, b |-> b]
  ELSE LET fnd == HtFind(b.page_table_, page_id)
       IN IF ~fnd.found
          THEN [ok |-> FALSE, b |-> b]
          ELSE LET b1 == WritePage(b, page_id, b.pages_[fnd.value].data_)
               IN [ok |-> TRUE, b |-> [b1 EXCEPT !.pages_[fnd.value].is_dirty_ = FALSE]]

\* BufferPoolManagerInstance::FlushAllPgsImp: FlushPgImp(frame_id) for
\* frame_id = 0 .. pool_size_-1, the loop counter passed as the page id.
RECURSIVE FlushAllFrom(_, _)
FlushAllFrom(b, frame_id) ==
  IF frame_id >= Cardinality(DOMAIN b.pages_)
  THEN b
  ELSE FlushAllFrom(FlushPgImp(b, frame_id).b, frame_id + 1)

FlushAllPgsImp(b) == FlushAllFrom(b, 0)

\* Mutant: a delete that forgets the replacer's record of the frame.
DeleteFrameKeepsRecord(b, page_id, frame_id) ==
  LET b1 == [b EXCEPT !.page_table_ = HtRemove(@, page_id),
                      !.free_list_ = Append(@, frame_id),
                      !.replacer_ = SetEvictable(@, frame_id, TRUE)]
      b2 == ResetMemory(b1, frame_id)
  IN [b2 EXCEPT !.pages_[frame_id].is_dirty_ = FALSE,
                !.pages_[frame_id].page_id_ = INVALID_PAGE_ID]

\* Mutant: a delete that leaves the frame's page id in place.
DeleteFrameKeepsPageId(b, page_id, frame_id) ==
  LET b1 == [b EXCEPT !.page_table_ = HtRemove(@, page_id),
                      !.free_list_ = Append(@, frame_id),
                      !.replacer_ = ReplacerRemove(SetEvictable(@, frame_id, TRUE), frame_id)]
      b2 == ResetMemory(b1, frame_id)
  IN [b2 EXCEPT !.pages_[frame_id].is_dirty_ = FALSE]

\* DeletePgImp, lines 165-171, on the page's frame.
DeleteFrame(b, page_id, frame_id) ==
  LET b1 == [b EXCEPT !.page_table_ = HtRemove(@, page_id),
                      !.free_list_ = Append(@, frame_id),
                      !.replacer_ = ReplacerRemove(SetEvictable(@, frame_id, TRUE), frame_id)]
      b2 == ResetMemory(b1, frame_id)
  IN [b2 EXCEPT !.pages_[frame_id].is_dirty_ = FALSE,
                !.pages_[frame_id].page_id_ = INVALID_PAGE_ID]

\* BufferPoolManagerInstance::DeletePgImp: [ok, b]
DeletePgImp(b, page_id) ==
  IF page_id = INVALID_PAGE_ID
  THEN [ok |-> FALSE, b |-> b]
  ELSE LET fnd == HtFind(b.page_table_, page_id)
       IN IF ~fnd.found
          THEN [ok |-> TRUE, b |-> b]
          ELSE IF b.pages_[fnd.value].pin_count_ > 0
               THEN [ok |-> FALSE, b |-> b]
               ELSE [ok |-> TRUE, b |-> DeleteFrame(b, page_id, fnd.value)]

\* --------------------------------------------------------------- variables
VARIABLES
  bpm,       \* the BufferPoolManagerInstance between two operations
  ht,        \* a stand-alone ExtendibleHashTable<int, int>
  shadow,    \* ghost: key -> the value of its last Insert, or -1 when absent
  ht_ret,    \* the last hash-table call: its name; ok is whether Insert
             \* returned at all, and what Remove and Find returned
  rep,       \* a stand-alone LRUKReplacer
  acc,       \* ghost: frame -> its accesses since it last became tracked
  ins,       \* per thread, the Insert call under way: its position and locals
  fa         \* the FlushAllPages call under way: its loop counter, and as
             \* ghosts the pool it started from, the calls of other threads
             \* since and the WritePage calls made since

vars == <<bpm, ht, shadow, ht_ret, rep, acc, ins, fa>>

bpm_vars == <<bpm, fa>>

ht_vars == <<ht, shadow, ht_ret, ins>>

rep_vars == <<rep, acc>>

Keys == 0..(MaxKey - 1)

\* The values stored: two are enough to tell an overwrite from the old pair.
Vals == {0, 1}

PageIds == 0..(Max({MaxPageId, bpm.next_page_id_}) - 1)

Frames == 0..(PoolSize - 1)

\* No FlushAllPages call is under way.
FaIdle ==
  [frame_id |-> -1, start |-> BufferPoolManagerInstance(PoolSize, ReplacerK, BpmBucketSize),
   mid |-> <<>>, writes |-> <<>>]

BpmInit ==
  /\ bpm = BufferPoolManagerInstance(PoolSize, ReplacerK, BpmBucketSize)
  /\ fa = FaIdle

\* The threads that call Insert concurrently.
Inserters == 1..MaxInserters

\* A thread that is not inside Insert.
InsIdle == [pc |-> "idle", key |-> -1, bucket_id |-> -1, bucket_tar |-> -1,
            old_sz |-> 0, old_list |-> <<>>]

HtInit0 ==
  /\ shadow = [k \in Keys |-> -1]
  /\ ht_ret = [op |-> "init", ok |-> TRUE]
  /\ ins = [th \in Inserters |-> InsIdle]

\* The frame ids the stand-alone replacer's callers pass.
RepFrameIds == 0..RepFrames

\* A frame that is not tracked has no access on record.
NoAccess == [n |-> 0, first |-> -1, last |-> -1]

RepInit0 ==
  /\ rep = LRUKReplacer(RepFrames, 1)
  /\ acc = [f \in RepFrameIds |-> NoAccess]

HtInit ==
  /\ \E bs \in 1..MaxBucketSize : ht = ExtendibleHashTable(bs)
  /\ HtInit0
  /\ BpmInit
  /\ RepInit0

\* -------------------------------------------- stand-alone hash-table spec
\* An Insert that does not return ends the program.
HtAlive == ~(ht_ret.op = "Insert" /\ ~ht_ret.ok)

HtDoInsert ==
  \E k \in Keys, v \in Vals :
    /\ HtAlive
    /\ ht' = HtInsert(ht, k, v)
    /\ shadow' = [shadow EXCEPT ![k] = v]
    /\ ht_ret' = [op |-> "Insert", ok |-> InsertReturns(ht, k)]

HtDoRemove ==
  \E k \in Keys :
    /\ HtAlive
    /\ ht' = HtRemove(ht, k)
    /\ shadow' = [shadow EXCEPT ![k] = -1]
    /\ ht_ret' = [op |-> "Remove", ok |-> HtFind(ht, k).found]

HtDoFind ==
  \E k \in Keys :
    /\ HtAlive
    /\ ht_ret' = [op |-> "Find", ok |-> HtFind(ht, k).found]
    /\ UNCHANGED <<ht, shadow>>

HtNext ==
  \/ HtDoInsert /\ UNCHANGED <<ins, bpm_vars, rep_vars>>
  \/ HtDoRemove /\ UNCHANGED <<ins, bpm_vars, rep_vars>>
  \/ HtDoFind /\ UNCHANGED <<ins, bpm_vars, rep_vars>>

HtSpec == HtInit /\ [][HtNext]_vars

\* ------------------------------------------------------ buffer-pool spec
\* An operation starts with an empty call trace; what the pool keeps of the
\* operation is its members, not the trace.
Settled(b) == [b EXCEPT !.io = <<>>]

\* The page id arguments of the operations: PageIds and INVALID_PAGE_ID.
PageArgs == PageIds \cup {INVALID_PAGE_ID}

Time(b) == b.replacer_.current_timestamp_

NewPage ==
  /\ NoFrame(bpm) \/ Time(bpm) < MaxTime
  /\ bpm' = Settled(NewPgImp(bpm).b)

FetchPage ==
  \E p \in PageArgs :
    LET res == FetchPgImp(bpm, p)
    IN /\ Time(res.b) <= MaxTime
       /\ \A f \in Frames : res.b.pages_[f].pin_count_ <= MaxPin
       /\ bpm' = Settled(res.b)

\* A caller that passes is_dirty = true has written the page's bytes while
\* it held its pin.
Written(b, page_id) ==
  LET fnd == HtFind(b.page_table_, page_id)
  IN IF fnd.found /\ b.pages_[fnd.value].pin_count_ > 0
     THEN [b EXCEPT !.pages_[fnd.value].data_ = "user"]
     ELSE b

UnpinPage ==
  \E p \in PageArgs, is_dirty \in BOOLEAN :
    bpm' = Settled(UnpinPgImp(IF is_dirty THEN Written(bpm, p) ELSE bpm, p, is_dirty).b)

FlushPage ==
  \E p \in PageArgs : bpm' = Settled(FlushPgImp(bpm, p).b)

FlushAllPages == bpm' = Settled(FlushAllPgsImp(bpm))

DeletePage ==
  \E p \in PageArgs : bpm' = Settled(DeletePgImp(bpm, p).b)

Next ==
  \/ NewPage /\ UNCHANGED <<fa, ht_vars, rep_vars>>
  \/ FetchPage /\ UNCHANGED <<fa, ht_vars, rep_vars>>
  \/ UnpinPage /\ UNCHANGED <<fa, ht_vars, rep_vars>>
  \/ FlushPage /\ UNCHANGED <<fa, ht_vars, rep_vars>>
  \/ FlushAllPages /\ UNCHANGED <<fa, ht_vars, rep_vars>>
  \/ DeletePage /\ UNCHANGED <<fa, ht_vars, rep_vars>>

Init == BpmInit /\ ht = ExtendibleHashTable(1) /\ HtInit0 /\ RepInit0

Spec == Init /\ [][Next]_vars

\* ------------------------------------------------- observations on a pool
\* The pairs the page table holds, read off its buckets.
TableEntries(t) ==
  UNION {{t.heap[t.dir_[i]].list_[j] : j \in 1..Len(t.heap[t.dir_[i]].list_)} :
           i \in DOMAIN t.dir_}

Resident(b, page_id) == HtFind(b.page_table_, page_id).found

FrameOf(b, page_id) == HtFind(b.page_table_, page_id).value

\* The replacer holds a record of the frame / counts it among the evictable.
Tracked(r, frame_id) ==
  HasEntry(r.history_id_time_, frame_id) \/ HasEntry(r.cache_id_time_, frame_id)

Evictable(r, frame_id) ==
  frame_id \in r.history_is_evictable_ \cup r.cache_is_evictable_

InFreeList(b, frame_id) == \E i \in 1..Len(b.free_list_) : b.free_list_[i] = frame_id

\* NewPage, and FetchPage of each page id that is not resident: what the call
\* returns, and the page id it installs.
Acquisitions ==
  LET new == NewPgImp(bpm)
      fetch(p) == FetchPgImp(bpm, p)
  IN {[frame_id |-> new.frame_id, page_id |-> new.page_id, reads |-> FALSE, b |-> new.b]}
       \cup {[frame_id |-> fetch(p).frame_id, page_id |-> p, reads |-> TRUE, b |-> fetch(p).b] :
               p \in {q \in PageIds : ~Resident(bpm, q)}}

\* The pool as each operation that is no acquisition, called now with each
\* argument, would leave it.
OtherOutcomes ==
  {FetchPgImp(bpm, p).b : p \in {q \in PageArgs : q = INVALID_PAGE_ID \/ Resident(bpm, q)}}
    \cup {UnpinPgImp(bpm, p, d).b : p \in PageArgs, d \in BOOLEAN}
    \cup {FlushPgImp(bpm, p).b : p \in PageArgs}
    \cup {FlushAllPgsImp(bpm)}
    \cup {DeletePgImp(bpm, p).b : p \in PageArgs}

\* No frame is free and every frame holds a pinned page.
AllPinned(b) ==
  /\ b.free_list_ = <<>>
  /\ \A f \in DOMAIN b.pages_ :
       b.pages_[f].page_id_ # INVALID_PAGE_ID /\ b.pages_[f].pin_count_ > 0

\* C1 Pinned pages are never evicted: a frame with pin_count_ > 0 is tracked
\* by the replacer as non-evictable, no NewPage or FetchPage of a page that
\* is not resident takes it as its frame, and no operation changes the page
\* id or the bytes it holds.
C1_PinnedNeverEvicted ==
  LET pinned == {f \in Frames : bpm.pages_[f].pin_count_ > 0}
      acq == Acquisitions
  IN /\ \A f \in pinned :
          /\ Tracked(bpm.replacer_, f)
          /\ ~Evictable(bpm.replacer_, f)
          /\ ~InFreeList(bpm, f)
     /\ \A a \in acq : a.frame_id \notin pinned
     /\ \A o \in {a.b : a \in acq} \cup OtherOutcomes :
          \A f \in pinned :
            /\ o.pages_[f].page_id_ = bpm.pages_[f].page_id_
            /\ o.pages_[f].data_ = bpm.pages_[f].data_

\* A pinned frame stands next to a victim that NewPage can take.
C1_Witness ==
  /\ bpm.free_list_ = <<>>
  /\ Time(bpm) < MaxTime
  /\ \E f \in Frames :
       /\ bpm.pages_[f].pin_count_ > 0
       /\ NewPgImp(bpm).frame_id \in Frames \ {f}

\* C2 NewPage, and FetchPage of a valid page id that is not resident, return
\* null exactly when the free list is empty and every frame holds a pinned
\* page; otherwise they return a frame with pin_count_ 1 that holds the page
\* asked for, and the page that frame held before is in the page table no
\* more.
C2_FailIffAllPinned ==
  \A a \in Acquisitions :
    /\ (a.frame_id = -1) <=> AllPinned(bpm)
    /\ a.frame_id = -1 => a.b = bpm
    /\ a.frame_id # -1 =>
         /\ a.b.pages_[a.frame_id].pin_count_ = 1
         /\ a.b.pages_[a.frame_id].page_id_ = a.page_id
         /\ LET old == bpm.pages_[a.frame_id].page_id_
            IN old # a.page_id => ~Resident(a.b, old)

\* All frames are pinned, so the next NewPage fails; and one unpin later it
\* would succeed by eviction.
C2_Witness ==
  /\ AllPinned(bpm)
  /\ NewPgImp(bpm).frame_id = -1
  /\ \E p \in PageIds :
       /\ UnpinPgImp(bpm, p, FALSE).ok
       /\ NewPgImp(UnpinPgImp(bpm, p, FALSE).b).frame_id # -1

\* The calls an acquisition has to make on the frame it takes, in order: the
\* write-back of a dirty victim, the removal of its mapping, then the reset
\* or the read that overwrites its bytes.
ReuseTrace(victim, frame_id, page_id, reads) ==
  (IF victim.is_dirty_
   THEN <<(<<"WritePage", victim.page_id_, victim.data_>>), (<<"ClearDirty", frame_id>>)>>
   ELSE <<>>)
    \o <<(<<"Remove", victim.page_id_>>)>>
    \o <<(IF reads THEN <<"ReadPage", page_id, frame_id>> ELSE <<"ResetMemory", frame_id>>)>>

\* C3 Dirty write-back before reuse: when NewPage or FetchPage takes a frame
\* whose dirty flag is set, it calls WritePage(victim page id, victim bytes)
\* exactly once, clears the flag and removes the victim's mapping, all before
\* ResetMemory (NewPage) or ReadPage of the new page id (FetchPage); for a
\* clean frame it calls no WritePage. The frame ends clean.
C3_WritebackBeforeReuse ==
  \A a \in Acquisitions :
    a.frame_id # -1 =>
      /\ a.b.io = ReuseTrace(bpm.pages_[a.frame_id], a.frame_id, a.page_id, a.reads)
      /\ ~a.b.pages_[a.frame_id].is_dirty_

\* The victim the next NewPage takes is dirty and holds bytes a caller wrote.
C3_Witness ==
  /\ bpm.free_list_ = <<>>
  /\ Time(bpm) < MaxTime
  /\ NewPgImp(bpm).frame_id # -1
  /\ bpm.pages_[NewPgImp(bpm).frame_id].is_dirty_
  /\ bpm.pages_[NewPgImp(bpm).frame_id].data_ = "user"

\* C4 FlushAllPages flushes every resident page: for every page id in the
\* page table, whatever its value, FlushAllPages has called WritePage with
\* that id and the frame's bytes, and the frame's dirty flag is false after.
C4_FlushAllFlushesEveryPage ==
  LET o == FlushAllPgsImp(bpm)
  IN \A e \in TableEntries(bpm.page_table_) :
       /\ \E i \in 1..Len(o.io) : o.io[i] = <<"WritePage", e[1], bpm.pages_[e[2]].data_>>
       /\ ~o.pages_[e[2]].is_dirty_

\* C5 UnpinPage(p, is_dirty) on a resident page with pin_count_ > 0 returns
\* true, takes exactly 1 off pin_count_, leaves the frame dirty iff it was
\* dirty or is_dirty is set, and the frame is evictable after exactly when
\* the new pin_count_ is 0; nothing else changes. On a page that is not
\* resident or has pin_count_ 0 it returns false and changes nothing.
C5_Unpin ==
  \A p \in PageArgs, d \in BOOLEAN :
    LET res == UnpinPgImp(bpm, p, d)
        f == FrameOf(bpm, p)
    IN IF Resident(bpm, p) /\ bpm.pages_[f].pin_count_ > 0
       THEN /\ res.ok
            /\ res.b.pages_[f].pin_count_ = bpm.pages_[f].pin_count_ - 1
            /\ res.b.pages_[f].is_dirty_ = (bpm.pages_[f].is_dirty_ \/ d)
            /\ Evictable(res.b.replacer_, f) <=> (res.b.pages_[f].pin_count_ = 0)
            /\ res.b.pages_[f].page_id_ = bpm.pages_[f].page_id_
            /\ res.b.pages_[f].data_ = bpm.pages_[f].data_
            /\ \A g \in Frames \ {f} :
                 /\ res.b.pages_[g] = bpm.pages_[g]
                 /\ Evictable(res.b.replacer_, g) <=> Evictable(bpm.replacer_, g)
            /\ res.b.page_table_ = bpm.page_table_
            /\ res.b.free_list_ = bpm.free_list_
            /\ res.b.next_page_id_ = bpm.next_page_id_
            /\ Time(res.b) = Time(bpm)
       ELSE ~res.ok /\ res.b = bpm

\* A dirty page with two pins: an UnpinPage(p, false) has a dirty bit to keep
\* and a pin count that does not reach 0.
C5_Witness ==
  \E p \in PageIds :
    /\ Resident(bpm, p)
    /\ bpm.pages_[FrameOf(bpm, p)].pin_count_ = 2
    /\ bpm.pages_[FrameOf(bpm, p)].is_dirty_

\* What DeletePage(p) does to a page that is resident: refused when pinned,
\* else the mapping is removed, the frame is appended to the free list, leaves
\* the replacer and is reset to INVALID_PAGE_ID, clean, zeroed.
DeleteResident(p) ==
  LET res == DeletePgImp(bpm, p)
      f == FrameOf(bpm, p)
  IN IF bpm.pages_[f].pin_count_ > 0
     THEN ~res.ok /\ res.b = bpm
     ELSE /\ res.ok
          /\ ~Resident(res.b, p)
          /\ res.b.free_list_ = Append(bpm.free_list_, f)
          /\ ~Tracked(res.b.replacer_, f)
          /\ ~Evictable(res.b.replacer_, f)
          /\ res.b.pages_[f] = Page
          /\ \A g \in Frames \ {f} : res.b.pages_[g] = bpm.pages_[g]

\* C6 (as stated) DeletePage(p) returns true whenever p is not resident;
\* when p is resident it is refused if pinned and deleted otherwise.
C6_DeleteAsStated ==
  \A p \in PageArgs :
    IF Resident(bpm, p)
    THEN DeleteResident(p)
    ELSE DeletePgImp(bpm, p) = [ok |-> TRUE, b |-> bpm]

\* C6 (amended) For p # INVALID_PAGE_ID, DeletePage(p) returns true and
\* changes nothing when p is not resident, and when p is resident it is
\* refused if pinned and deleted otherwise; DeletePage(INVALID_PAGE_ID)
\* returns false and changes nothing.
C6_Delete ==
  /\ \A p \in PageIds :
       IF Resident(bpm, p)
       THEN DeleteResident(p)
       ELSE DeletePgImp(bpm, p) = [ok |-> TRUE, b |-> bpm]
  /\ ~Resident(bpm, INVALID_PAGE_ID)
  /\ DeletePgImp(bpm, INVALID_PAGE_ID) = [ok |-> FALSE, b |-> bpm]

\* An unpinned page with bytes a caller wrote, known to the replacer, is there
\* to be deleted, while another page is pinned and its delete refused.
C6_Witness ==
  \E p, q \in PageIds :
    /\ Resident(bpm, p) /\ Resident(bpm, q)
    /\ bpm.pages_[FrameOf(bpm, p)].pin_count_ = 0
    /\ bpm.pages_[FrameOf(bpm, p)].data_ = "user"
    /\ Tracked(bpm.replacer_, FrameOf(bpm, p))
    /\ bpm.pages_[FrameOf(bpm, q)].pin_count_ > 0

\* The pool as each operation other than FlushPage(page_id) and
\* FlushAllPages, called now with each argument, would leave it.
OutcomesWithoutFlush(page_id) ==
  {NewPgImp(bpm).b} \cup {FetchPgImp(bpm, p).b : p \in PageArgs}
    \cup {UnpinPgImp(bpm, p, d).b : p \in PageArgs, d \in BOOLEAN}
    \cup {FlushPgImp(bpm, p).b : p \in PageArgs \ {page_id}}
    \cup {DeletePgImp(bpm, p).b : p \in PageArgs}

\* How many times the operation called WritePage for the page id.
Writes(io, page_id) ==
  Cardinality({i \in 1..Len(io) : io[i][1] = "WritePage" /\ io[i][2] = page_id})

\* C7 No dirty data is dropped: a frame that holds page p with its dirty flag
\* set (as UnpinPage(p, true) leaves it) either still holds p dirty after any
\* operation other than FlushPage(p) and FlushAllPages, or that operation
\* has called WritePage for p exactly once, with the frame's bytes.
C7_NoDirtyDrop ==
  \A f \in Frames :
    bpm.pages_[f].is_dirty_ =>
      \A o \in OutcomesWithoutFlush(bpm.pages_[f].page_id_) :
        \/ /\ o.pages_[f].page_id_ = bpm.pages_[f].page_id_
           /\ o.pages_[f].is_dirty_
           /\ o.pages_[f].data_ = bpm.pages_[f].data_
           /\ Writes(o.io, bpm.pages_[f].page_id_) = 0
        \/ /\ Writes(o.io, bpm.pages_[f].page_id_) = 1
           /\ \E i \in 1..Len(o.io) :
                o.io[i] = <<"WritePage", bpm.pages_[f].page_id_, bpm.pages_[f].data_>>

\* The frames the page table's pairs name.
MappedFrames(b) == {e[2] : e \in TableEntries(b.page_table_)}

\* C8 Frame accounting: the length of the free list plus the number of frames
\* with a valid page id is pool_size, the free list has no duplicates, and
\* a frame is in the free list iff its page id is INVALID_PAGE_ID and neither
\* the page table nor the replacer knows it.
C8_FrameAccounting ==
  /\ Len(bpm.free_list_)
       + Cardinality({f \in Frames : bpm.pages_[f].page_id_ # INVALID_PAGE_ID}) = PoolSize
  /\ \A i, j \in 1..Len(bpm.free_list_) : bpm.free_list_[i] = bpm.free_list_[j] => i = j
  /\ LET mapped == MappedFrames(bpm)
     IN \A f \in Frames :
          InFreeList(bpm, f) <=>
            /\ bpm.pages_[f].page_id_ = INVALID_PAGE_ID
            /\ f \notin mapped
            /\ ~Tracked(bpm.replacer_, f)

\* Frame 0 was taken, deleted and appended behind frame 1, and frame 1 has
\* been taken since: the free list holds a frame that came back.
C8_Witness ==
  /\ bpm.free_list_ = <<0>>
  /\ bpm.pages_[1].page_id_ # INVALID_PAGE_ID
  /\ Tracked(bpm.replacer_, 1)

\* C9 Page-table coherence: every frame with a valid page id is the frame the
\* page table maps that page id to, and every pair (p, f) of the page table
\* has frame f holding page id p.
C9_PageTableCoherence ==
  /\ \A f \in Frames :
       bpm.pages_[f].page_id_ # INVALID_PAGE_ID =>
         Resident(bpm, bpm.pages_[f].page_id_) /\ FrameOf(bpm, bpm.pages_[f].page_id_) = f
  /\ \A e \in TableEntries(bpm.page_table_) : bpm.pages_[e[2]].page_id_ = e[1]

\* C10 The round trip: every Insert returns, and Find(k) reports the value
\* of the last Insert(k, v) when k was inserted and not removed since, and
\* reports absence otherwise.
C10_RoundTrip ==
  /\ HtAlive
  /\ \A k \in Keys :
       /\ HtFind(ht, k).found = (shadow[k] # -1)
       /\ shadow[k] # -1 => HtFind(ht, k).value = shadow[k]

\* -------------------------------------------- observations on a hash table
\* The bucket objects reachable from the directory.
ReachableBuckets(t) == {t.dir_[i] : i \in DOMAIN t.dir_}

\* C11 GetNumBuckets is accurate: after any sequence of Insert and Remove
\* calls that returned, num_buckets_ equals the number of distinct bucket
\* objects reachable from the directory.
C11_NumBucketsAccurate ==
  HtAlive => GetNumBuckets(ht) = Cardinality(ReachableBuckets(ht))

\* The slots of the directory and the bucket a slot references.
Slots(t) == DOMAIN t.dir_

BucketAt(t, i) == t.heap[t.dir_[i]]

\* I5: two slots reference the same bucket exactly when they agree on the
\* low local-depth bits.
SlotsShareBySuffix(t) ==
  \A i, j \in Slots(t) :
    (t.dir_[i] = t.dir_[j])
      <=> (i % Pow2(GetLocalDepth(t, i)) = j % Pow2(GetLocalDepth(t, i)))

\* I6: every stored key agrees, on the low local-depth bits, with the slots
\* that reference its bucket.
KeysMatchSuffix(t) ==
  \A i \in Slots(t) : \A n \in 1..Len(BucketAt(t, i).list_) :
    BucketAt(t, i).list_[n][1] % Pow2(GetLocalDepth(t, i))
      = i % Pow2(GetLocalDepth(t, i))

\* C12 Directory and local depths are consistent after every Insert that
\* returned: the directory has exactly 2^global_depth slots, no local depth
\* exceeds the global depth, slots share a bucket iff they agree modulo
\* 2^local_depth, and every stored key hashes to the suffix of its bucket.
C12_DirectoryConsistent ==
  HtAlive =>
    /\ Slots(ht) = 0..(Pow2(GetGlobalDepth(ht)) - 1)
    /\ \A i \in Slots(ht) : GetLocalDepth(ht, i) <= GetGlobalDepth(ht)
    /\ SlotsShareBySuffix(ht)
    /\ KeysMatchSuffix(ht)

\* C12 witness: Inserts returned and left a directory of depth 3 in which a
\* non-empty bucket of local depth 1 is shared by four slots next to a
\* non-empty bucket of local depth 3.
C12_Witness ==
  /\ HtAlive
  /\ ht_ret.op = "Insert"
  /\ GetGlobalDepth(ht) = 3
  /\ \E i, j \in Slots(ht) :
       /\ GetLocalDepth(ht, i) = 1
       /\ BucketAt(ht, i).list_ # <<>>
       /\ GetLocalDepth(ht, j) = 3
       /\ BucketAt(ht, j).list_ # <<>>

\* Bit d of a slot number or of a key's hash.
Bit(n, d) == (n \div Pow2(d)) % 2

\* The pairs of a list, as a set.
Pairs(list) == {list[n] : n \in 1..Len(list)}

\* What one split of the bucket at slot bucket_id must look like: the slots
\* that agree with bucket_id on the low d bits (d the bucket's local depth
\* before the split) reference exactly two buckets of local depth d + 1,
\* bit d of the slot decides which, and so it does for every pair.
SplitsInTwo(t, bucket_id) ==
  LET d == GetLocalDepth(t, bucket_id)
      old_list == BucketAt(t, bucket_id).list_
      t2 == SplitStep(t, bucket_id)
      olds == {s \in Slots(t2) : s % Pow2(d) = bucket_id % Pow2(d)}
  IN /\ Cardinality({t2.dir_[s] : s \in olds}) = 2
     /\ \A s \in olds : BucketAt(t2, s).depth_ = d + 1
     /\ \A s, u \in olds : (t2.dir_[s] = t2.dir_[u]) <=> (Bit(s, d) = Bit(u, d))
     /\ \A s \in olds :
          Pairs(BucketAt(t2, s).list_) = {pa \in Pairs(old_list) : Bit(pa[1], d) = Bit(s, d)}

\* C19 Each split of a full bucket of local depth d, as Insert's loop runs it
\* for a key, replaces the bucket by exactly two buckets of local depth d + 1
\* (after doubling the directory when d is the global depth), also when d is
\* below the global depth by 2 or more; bit d of the hash distributes the
\* pairs and rewires the slots.
C19_SplitInTwo ==
  HtAlive =>
    \A k \in Keys :
      IsFull(BucketAt(ht, IndexOf(ht, k))) /\ ~Exhausted(ht, IndexOf(ht, k))
        => SplitsInTwo(ht, IndexOf(ht, k))

\* C20 Bucket capacity is fixed: the table's bucket_size stays the value it
\* was constructed with (at most MaxBucketSize), and no reachable bucket has a
\* larger capacity or holds more pairs than that.
C20_CapacityFixed ==
  HtAlive =>
    /\ GetBucketSize(ht) <= MaxBucketSize
    /\ \A i \in Slots(ht) :
         /\ BucketAt(ht, i).size_ <= MaxBucketSize
         /\ Len(BucketAt(ht, i).list_) <= MaxBucketSize

\* ---------------------------------------------- stand-alone replacer spec
\* A replacer built with num_frames in 1..RepFrames and k in 1..MaxK, called
\* with the frame ids of RepFrameIds in any order.

\* The record of a frame after one more access at time `now`.
Accessed(a, now) ==
  IF a.n = 0
  THEN [n |-> 1, first |-> now, last |-> now]
  ELSE [n |-> a.n + 1, first |-> a.first, last |-> now]

\* A frame the replacer no longer tracks has no access on record.
Forget(r, a) == [f \in RepFrameIds |-> IF Tracked(r, f) THEN a[f] ELSE NoAccess]

RepInit ==
  /\ \E num_frames \in 1..RepFrames, k \in 1..MaxK : rep = LRUKReplacer(num_frames, k)
  /\ acc = [f \in RepFrameIds |-> NoAccess]
  /\ BpmInit
  /\ ht = ExtendibleHashTable(1)
  /\ HtInit0

RepRecordAccess ==
  \E f \in RepFrameIds :
    /\ rep.current_timestamp_ < MaxRepTime
    /\ rep' = RecordAccess(rep, f)
    /\ acc' = Forget(rep', [acc EXCEPT ![f] = Accessed(@, rep.current_timestamp_)])

RepSetEvictable ==
  \E f \in RepFrameIds, set_evictable \in BOOLEAN :
    /\ rep' = SetEvictable(rep, f, set_evictable)
    /\ acc' = Forget(rep', acc)

RepRemove ==
  \E f \in RepFrameIds :
    /\ rep' = ReplacerRemove(rep, f)
    /\ acc' = Forget(rep', acc)

RepEvict ==
  /\ rep' = Evict(rep).r
  /\ acc' = Forget(rep', acc)

RepNext ==
  \/ RepRecordAccess /\ UNCHANGED <<bpm_vars, ht_vars>>
  \/ RepSetEvictable /\ UNCHANGED <<bpm_vars, ht_vars>>
  \/ RepRemove /\ UNCHANGED <<bpm_vars, ht_vars>>
  \/ RepEvict /\ UNCHANGED <<bpm_vars, ht_vars>>

RepSpec == RepInit /\ [][RepNext]_vars

\* The tracked frames whose evictable flag is set.
EvictableFrames(r) == {f \in RepFrameIds : Tracked(r, f) /\ Evictable(r, f)}

\* C13 Replacer size: Size() is the number of tracked frames whose evictable
\* flag is set; a frame that becomes tracked is not evictable;
\* SetEvictable(f, flag) changes Size() by +1, -1 or 0, sets the flag of a
\* tracked frame and changes nothing when the flag already matches or f is
\* unknown; RecordAccess never changes Size().
C13_ReplacerSize ==
  /\ Size(rep) = Cardinality(EvictableFrames(rep))
  /\ \A f \in RepFrameIds :
       /\ Size(RecordAccess(rep, f)) = Size(rep)
       /\ ~Tracked(rep, f) =>
            /\ Tracked(RecordAccess(rep, f), f)
            /\ ~Evictable(RecordAccess(rep, f), f)
       /\ \A set_evictable \in BOOLEAN :
            LET r2 == SetEvictable(rep, f, set_evictable)
            IN /\ Size(r2) - Size(rep) \in {-1, 0, 1}
               /\ Tracked(rep, f) => Evictable(r2, f) = set_evictable
               /\ (~Tracked(rep, f) \/ Evictable(rep, f) = set_evictable) => r2 = rep

\* The frame Evict must return: among the evictable frames, one with fewer
\* than k accesses whose first access is the earliest when there is one,
\* else the one whose most recent access is the oldest.
Victim(r, a) ==
  LET ev == EvictableFrames(r)
      young == {f \in ev : a[f].n < r.k_}
  IN IF young # {}
     THEN CHOOSE f \in young : \A g \in young : a[f].first <= a[g].first
     ELSE CHOOSE f \in ev : \A g \in ev : a[f].last <= a[g].last

\* C14 Evict's victim order, for every K: Evict returns false and changes
\* nothing iff no tracked frame is evictable; otherwise it returns the
\* evictable frame with fewer than K accesses whose first access is the
\* earliest, or else the evictable frame whose most recent access is the
\* oldest, and removes the victim's whole state.
C14_EvictOrder ==
  LET e == Evict(rep)
  IN IF EvictableFrames(rep) = {}
     THEN ~e.ok /\ e.r = rep
     ELSE /\ e.ok
          /\ e.frame_id = Victim(rep, acc)
          /\ ~Tracked(e.r, e.frame_id)
          /\ ~Evictable(e.r, e.frame_id)
          /\ Cnt(e.r, e.frame_id) = 0

\* C15 Remove: on a tracked frame that is not evictable it reports the error
\* and changes nothing; on an evictable frame it removes the frame's whole
\* state and lowers Size() by exactly 1, leaving the other frames as they
\* were; on an unknown frame it does nothing.
C15_Remove ==
  \A f \in RepFrameIds :
    LET r2 == ReplacerRemove(rep, f)
    IN /\ (Tracked(rep, f) /\ ~Evictable(rep, f)) => (RemoveThrows(rep, f) /\ r2 = rep)
       /\ (Tracked(rep, f) /\ Evictable(rep, f)) =>
            /\ ~RemoveThrows(rep, f)
            /\ ~Tracked(r2, f) /\ ~Evictable(r2, f) /\ Cnt(r2, f) = 0
            /\ Size(r2) = Size(rep) - 1
            /\ \A g \in RepFrameIds \ {f} :
                 /\ Tracked(r2, g) = Tracked(rep, g)
                 /\ Evictable(r2, g) = Evictable(rep, g)
                 /\ Cnt(r2, g) = Cnt(rep, g)
       /\ ~Tracked(rep, f) => (~RemoveThrows(rep, f) /\ r2 = rep)

\* C15 witness: the three cases of Remove in one state: a frame of the cache
\* queue that is tracked and not evictable, an evictable frame of the history
\* queue, and a frame the replacer does not know.
C15_Witness ==
  /\ \E f \in RepFrameIds :
       HasEntry(rep.cache_id_time_, f) /\ ~Evictable(rep, f)
  /\ \E f \in RepFrameIds :
       HasEntry(rep.history_id_time_, f) /\ Evictable(rep, f)
  /\ \E f \in RepFrameIds : ~Tracked(rep, f)

\* The queue a frame is in.
InHistory(r, frame_id) == HasEntry(r.history_id_time_, frame_id)

InCache(r, frame_id) == HasEntry(r.cache_id_time_, frame_id)

\* The frame is in the queue that a frame with n accesses belongs to.
ClassifiedAs(r, frame_id, n) ==
  /\ InHistory(r, frame_id) <=> (0 < n /\ n < r.k_)
  /\ InCache(r, frame_id) <=> (0 < n /\ n >= r.k_)

\* C16 LRU-K classification, for every K >= 1: a tracked frame is in the
\* history queue iff it has had fewer than K accesses since it last became
\* tracked and in the cache queue iff it has had K or more, never in both;
\* an access keeps the frame's evictable flag, also when it migrates; after
\* Evict or Remove the frame is unknown and its next access counts as its
\* first.
C16_Classification ==
  /\ \A f \in RepFrameIds :
       /\ ClassifiedAs(rep, f, acc[f].n)
       /\ ~(InHistory(rep, f) /\ InCache(rep, f))
       /\ Tracked(rep, f) => Evictable(RecordAccess(rep, f), f) = Evictable(rep, f)
       /\ (Tracked(rep, f) /\ Evictable(rep, f)) =>
            LET r2 == ReplacerRemove(rep, f)
            IN ~Tracked(r2, f) /\ ClassifiedAs(RecordAccess(r2, f), f, 1)
  /\ LET e == Evict(rep)
     IN e.ok => /\ ~Tracked(e.r, e.frame_id)
                /\ ClassifiedAs(RecordAccess(e.r, e.frame_id), e.frame_id, 1)

\* ------------------------------------------- buffer pool, concurrent callers
\* FlushAllPgsImp takes no latch of its own: each FlushPgImp(frame_id) of its
\* loop takes latch_ and releases it (lines 134 and 147-151). The calls of
\* other threads hold latch_ from their first statement to their last and so
\* run as one step each, before, after or between two iterations of the loop.

\* A call of another thread.
Call(op, page_id, is_dirty) == [op |-> op, page_id |-> page_id, is_dirty |-> is_dirty]

\* The pool a call leaves behind, its calls of the disk manager appended to
\* the pool's trace.
Apply(b, c) ==
  CASE c.op = "NewPage" -> NewPgImp(b).b
    [] c.op = "FetchPage" -> FetchPgImp(b, c.page_id).b
    [] c.op = "UnpinPage" ->
         UnpinPgImp(IF c.is_dirty THEN Written(b, c.page_id) ELSE b, c.page_id, c.is_dirty).b
    [] c.op = "FlushPage" -> FlushPgImp(b, c.page_id).b
    [] c.op = "DeletePage" -> DeletePgImp(b, c.page_id).b
    [] c.op = "FlushAllPages" -> FlushAllPgsImp(b)

\* The WritePage calls of a trace, in order.
WritesOf(io) == SelectSeq(io, LAMBDA c : c[1] = "WritePage")

\* The callers pass the page ids that AllocatePage has handed out, and
\* INVALID_PAGE_ID.
AllocatedArgs == {p \in PageArgs : p < bpm.next_page_id_}

\* A latched call of some thread: one step. While a FlushAllPages is under
\* way the call is recorded, with the WritePage calls it made.
ConcCall(c) ==
  LET b == Apply(bpm, c)
  IN /\ Time(b) <= MaxConcTime
     /\ \A f \in Frames : b.pages_[f].pin_count_ <= MaxPin
     /\ fa.frame_id # -1 => Len(fa.mid) < MaxMid
     /\ bpm' = Settled(b)
     /\ fa' = IF fa.frame_id = -1
              THEN fa
              ELSE [fa EXCEPT !.mid = Append(@, c), !.writes = @ \o WritesOf(b.io)]

ConcNewPage == ConcCall(Call("NewPage", INVALID_PAGE_ID, FALSE))

ConcFetchPage == \E p \in AllocatedArgs : ConcCall(Call("FetchPage", p, FALSE))

ConcUnpinPage == \E p \in AllocatedArgs, is_dirty \in BOOLEAN : ConcCall(Call("UnpinPage", p, is_dirty))

ConcFlushPage == \E p \in AllocatedArgs : ConcCall(Call("FlushPage", p, FALSE))

ConcDeletePage == \E p \in AllocatedArgs : ConcCall(Call("DeletePage", p, FALSE))

\* FlushAllPgsImp, line 148: the loop starts with frame_id = 0.
FlushAllBegin ==
  /\ fa.frame_id = -1
  /\ fa' = [frame_id |-> 0, start |-> bpm, mid |-> <<>>, writes |-> <<>>]
  /\ UNCHANGED bpm

\* FlushAllPgsImp, lines 148-150: one iteration, FlushPgImp(frame_id).
FlushAllStep ==
  /\ fa.frame_id \in Frames
  /\ LET b == FlushPgImp(bpm, fa.frame_id).b
     IN /\ bpm' = Settled(b)
        /\ fa' = [fa EXCEPT !.frame_id = @ + 1, !.writes = @ \o WritesOf(b.io)]

\* FlushAllPgsImp returns.
FlushAllEnd ==
  /\ fa.frame_id = PoolSize
  /\ fa' = FaIdle
  /\ UNCHANGED bpm

ConcNext ==
  \/ ConcNewPage /\ UNCHANGED <<ht_vars, rep_vars>>
  \/ ConcFetchPage /\ UNCHANGED <<ht_vars, rep_vars>>
  \/ ConcUnpinPage /\ UNCHANGED <<ht_vars, rep_vars>>
  \/ ConcFlushPage /\ UNCHANGED <<ht_vars, rep_vars>>
  \/ ConcDeletePage /\ UNCHANGED <<ht_vars, rep_vars>>
  \/ FlushAllBegin /\ UNCHANGED <<ht_vars, rep_vars>>
  \/ FlushAllStep /\ UNCHANGED <<ht_vars, rep_vars>>
  \/ FlushAllEnd /\ UNCHANGED <<ht_vars, rep_vars>>

ConcSpec == Init /\ [][ConcNext]_vars

\* What the claim compares: the frames with their dirty flags, the page
\* table's pairs and the WritePage calls in order.
Observed(b, writes) ==
  [pages_ |-> b.pages_, page_table_ |-> TableEntries(b.page_table_), writes |-> writes]

\* The whole operations in a serial order: the recorded calls and the
\* FlushAllPages, one after the other from the pool `b`.
RECURSIVE SerialRun(_, _)
SerialRun(b, calls) ==
  IF calls = <<>> THEN b ELSE SerialRun(Apply(b, Head(calls)), Tail(calls))

\* Every order of the recorded calls and the FlushAllPages.
SerialOrders(mid) ==
  LET all == Append(mid, Call("FlushAllPages", INVALID_PAGE_ID, FALSE))
      idx == 1..Len(all)
  IN {[i \in idx |-> all[pi[i]]] : pi \in Permutations(idx)}

\* C18 Every public operation holds the latch for its whole duration,
\* FlushAllPages included: when a FlushAllPages returns, the frames, dirty
\* flags, page table and WritePage history are those of some serial order of
\* the FlushAllPages and the calls that other threads made meanwhile.
C18_FlushAllSerializable ==
  fa.frame_id = PoolSize =>
    \E calls \in SerialOrders(fa.mid) :
      LET b == SerialRun(fa.start, calls)
      IN Observed(b, WritesOf(b.io)) = Observed(bpm, fa.writes)

\* --------------------------------------------- hash table, concurrent callers
\* Insert takes no latch (the lock_guard at line 98 is commented out), so the
\* statements of an Insert interleave with the Inserts of other threads and
\* with Find, which holds latch_ from its first statement to its last and so
\* runs as one step. An Insert is run in these steps:
\* lines 99-103, the loop test of line 104, the first half of a split (lines
\* 105-111 or 105 and 128-137), its second half with the recomputation of the
\* target (lines 112-126 or 138-142, and 144-148), and line 150.

ConcKeys == 0..(MaxConcKey - 1)

\* Insert, lines 106-111: the directory doubles.
GrowDirectory(t) ==
  LET old_sz == Cardinality(DOMAIN t.dir_)
  IN [t EXCEPT !.global_depth_ = @ + 1,
               !.dir_ = [i \in 0..(2 * old_sz - 1) |-> t.dir_[i % old_sz]]]

\* Insert, lines 112-126: bucket_tar's depth is incremented, a new bucket is
\* hung at bucket_id + old_sz, bucket_size_ is incremented, and the pairs of
\* bucket_tar whose index is not bucket_id move to the new bucket.
SplitTarget(t, bucket_id, bucket_tar, old_sz) ==
  LET depth == t.heap[bucket_tar].depth_ + 1
      fresh == NewRef(t.heap)
      old_list == t.heap[bucket_tar].list_
  IN [t EXCEPT !.dir_[bucket_id + old_sz] = fresh,
               !.bucket_size_ = @ + 1,
               !.heap = (fresh :> [size_ |-> t.bucket_size_, depth_ |-> depth,
                                   list_ |-> SelectSeq(old_list, LAMBDA pa : IndexOf(t, pa[1]) # bucket_id)])
                        @@ [t.heap EXCEPT ![bucket_tar] =
                              [@ EXCEPT !.depth_ = depth,
                                        !.list_ = SelectSeq(old_list, LAMBDA pa : IndexOf(t, pa[1]) = bucket_id)]]]

\* A bucket lives as long as a directory slot or a thread's bucket_tar
\* references it. Its address is named by the lowest slot that references it,
\* or, when no slot does, by the first thread that holds it.
ConcCanon(t, is) ==
  LET slots == DOMAIN t.dir_
      held == {is[th].bucket_tar : th \in Inserters} \ {-1}
      refs == {t.dir_[i] : i \in slots} \cup held
      name(r) == IF \E i \in slots : t.dir_[i] = r
                 THEN Min({i \in slots : t.dir_[i] = r})
                 ELSE 0 - (1 + Min({th \in Inserters : is[th].bucket_tar = r}))
  IN [ht |-> [t EXCEPT !.dir_ = [i \in slots |-> name(t.dir_[i])],
                       !.heap = [n \in {name(r) : r \in refs} |->
                                   t.heap[CHOOSE r \in refs : name(r) = n]]],
      ins |-> [th \in Inserters |->
                 [is[th] EXCEPT !.bucket_tar = IF @ = -1 THEN -1 ELSE name(@)]]]

\* A doubling that the machine cannot hold does not complete, and the Insert
\* that asked for it never returns.
Running == \A th \in Inserters : ins[th].pc # "stuck"

\* Insert, lines 99-103.
InsStart(th) ==
  \E k \in ConcKeys :
    /\ Running
    /\ ins[th].pc = "idle"
    /\ ins' = [ins EXCEPT ![th] = [InsIdle EXCEPT !.pc = "while", !.key = k,
                                                  !.bucket_id = IndexOf(ht, k),
                                                  !.bucket_tar = ht.dir_[IndexOf(ht, k)]]]
    /\ UNCHANGED <<ht, shadow, ht_ret>>

\* Insert, line 104: while (bucket_tar->IsFull()).
InsWhile(th) ==
  /\ Running
  /\ ins[th].pc = "while"
  /\ ins' = [ins EXCEPT ![th].pc = IF IsFull(ht.heap[ins[th].bucket_tar]) THEN "split" ELSE "insert"]
  /\ UNCHANGED <<ht, shadow, ht_ret>>

\* Insert, line 105 and lines 106-111 (the directory doubles) or lines
\* 128-137 (old_list is copied and the slots are rewired to new buckets).
InsSplit(th) ==
  /\ Running
  /\ ins[th].pc = "split"
  /\ LET me == ins[th]
         c == IF GetGlobalDepth(ht) = GetLocalDepth(ht, me.bucket_id)
              THEN IF ht.global_depth_ >= MaxConcDepth
                   THEN ConcCanon(ht, [ins EXCEPT ![th] = [InsIdle EXCEPT !.pc = "stuck"]])
                   ELSE ConcCanon(GrowDirectory(ht),
                                  [ins EXCEPT ![th].pc = "double",
                                              ![th].old_sz = Cardinality(DOMAIN ht.dir_)])
              ELSE ConcCanon(Rewire(ht, me.bucket_id, Pow2(GetLocalDepth(ht, me.bucket_id)), 0),
                             [ins EXCEPT ![th].pc = "rehash",
                                         ![th].old_list = BucketAt(ht, me.bucket_id).list_])
     IN ht' = c.ht /\ ins' = c.ins
  /\ UNCHANGED <<shadow, ht_ret>>

\* Insert, lines 144-148: the target is computed again.
Retarget(t, is, th) ==
  ConcCanon(t, [is EXCEPT ![th] = [InsIdle EXCEPT !.pc = "while", !.key = is[th].key,
                                                  !.bucket_id = IndexOf(t, is[th].key),
                                                  !.bucket_tar = t.dir_[IndexOf(t, is[th].key)]]])

\* Insert, lines 112-126 and 144-148.
InsDouble(th) ==
  /\ Running
  /\ ins[th].pc = "double"
  /\ LET me == ins[th]
         c == Retarget(SplitTarget(ht, me.bucket_id, me.bucket_tar, me.old_sz), ins, th)
     IN ht' = c.ht /\ ins' = c.ins
  /\ UNCHANGED <<shadow, ht_ret>>

\* Insert, lines 138-142 and 144-148.
InsRehash(th) ==
  /\ Running
  /\ ins[th].pc = "rehash"
  /\ LET c == Retarget(Redistribute(ht, ins[th].old_list, 1), ins, th)
     IN ht' = c.ht /\ ins' = c.ins
  /\ UNCHANGED <<shadow, ht_ret>>

\* Insert, line 150: bucket_tar->Insert(key, value), and the call returns.
InsFinish(th) ==
  /\ Running
  /\ ins[th].pc = "insert"
  /\ LET me == ins[th]
         c == ConcCanon([ht EXCEPT !.heap[me.bucket_tar] = BucketInsert(@, me.key, 0)],
                        [ins EXCEPT ![th] = InsIdle])
     IN ht' = c.ht /\ ins' = c.ins
  /\ shadow' = [shadow EXCEPT ![ins[th].key] = 0]
  /\ UNCHANGED ht_ret

\* Find, under latch_.
ConcFind ==
  \E k \in ConcKeys :
    /\ Running
    /\ ht_ret' = [op |-> "Find", ok |-> HtFind(ht, k).found]
    /\ UNCHANGED <<ht, shadow, ins>>

HtConcNext ==
  \/ (\E th \in Inserters : InsStart(th)) /\ UNCHANGED <<bpm_vars, rep_vars>>
  \/ (\E th \in Inserters : InsWhile(th)) /\ UNCHANGED <<bpm_vars, rep_vars>>
  \/ (\E th \in Inserters : InsSplit(th)) /\ UNCHANGED <<bpm_vars, rep_vars>>
  \/ (\E th \in Inserters : InsDouble(th)) /\ UNCHANGED <<bpm_vars, rep_vars>>
  \/ (\E th \in Inserters : InsRehash(th)) /\ UNCHANGED <<bpm_vars, rep_vars>>
  \/ (\E th \in Inserters : InsFinish(th)) /\ UNCHANGED <<bpm_vars, rep_vars>>
  \/ ConcFind /\ UNCHANGED <<bpm_vars, rep_vars>>

HtConcSpec == Init /\ [][HtConcNext]_vars

\* An Insert of the key is under way in some thread.
Inserting(k) == \E th \in Inserters : ins[th].pc # "idle" /\ ins[th].key = k

\* No Insert is under way.
Quiet == \A th \in Inserters : ins[th].pc = "idle"

\* C17 Hash-table operations are serialized: a Find(k), whenever it runs,
\* reports a key as present that an Insert has stored and that was never
\* removed, unless an Insert of that very key is under way; and once
\* the concurrent Inserts have returned, no pair is lost and the directory
\* invariants hold.
C17_HashTableSerialized ==
  Running =>
    /\ \A k \in ConcKeys :
         (shadow[k] # -1 /\ ~Inserting(k)) => HtFind(ht, k).found
    /\ Quiet =>
         /\ \A k \in ConcKeys : shadow[k] # -1 => HtFind(ht, k).found
         /\ Slots(ht) = 0..(Pow2(GetGlobalDepth(ht)) - 1)
         /\ \A i \in Slots(ht) : GetLocalDepth(ht, i) <= GetGlobalDepth(ht)
         /\ SlotsShareBySuffix(ht)
         /\ KeysMatchSuffix(ht)

\* ------------------------------------------------- Insert of a present key
\* The keys stored in the buckets of the directory.
StoredKeys(t) ==
  {pa[1] : pa \in UNION {Pairs(BucketAt(t, i).list_) : i \in Slots(t)}}

\* What an Insert(key, value) of a present key must leave behind: the key
\* maps to the value, and the global depth, the directory's size, every
\* slot's local depth and the stored keys are those of before.
OnlyReplaces(t, key, value) ==
  LET t2 == HtInsert(t, key, value)
  IN /\ InsertReturns(t, key)
     /\ HtFind(t2, key) = [found |-> TRUE, value |-> value]
     /\ GetGlobalDepth(t2) = GetGlobalDepth(t)
     /\ Slots(t2) = Slots(t)
     /\ \A i \in Slots(t) : GetLocalDepth(t2, i) = GetLocalDepth(t, i)
     /\ StoredKeys(t2) = StoredKeys(t)

\* C21 Insert(k, v) for a key k that is already present only replaces its
\* value: the global depth, the directory size, every bucket's local depth
\* and the set of stored keys are unchanged, also when the bucket that holds
\* k is full.
C21_OverwriteInPlace ==
  HtAlive =>
    \A k \in Keys, v \in Vals :
      HtFind(ht, k).found => OnlyReplaces(ht, k, v)

====
